---- MODULE Spec2Model ----
(***************************************************************************)
(* Model of the Trends.Earth STAC catalog builder (src/src/main.py):       *)
(* scan_data_folder walks <data-root>/<country>/**, reads the two summary  *)
(* JSON files, classifies the files into two asset maps, and main()        *)
(* assembles catalog -> collection -> items -> assets and saves once.      *)
(*                                                                         *)
(* Strings the code inspects character by character (file names) are       *)
(* sequences of one-character strings.  JSON values are tagged records.    *)
(* Numbers are exact rationals n/d (areas are multiples of 1/8, which      *)
(* binary floating point represents and adds exactly).                     *)
(***************************************************************************)
EXTENDS Integers, Sequences, FiniteSets, TLC

VARIABLES
    dataFolderExists, \* os.path.exists(data_folder)
    dirs,             \* immediate subdirectories of the data root, in os.walk order
    tree,             \* the regular files below the data root
    pc,               \* position of main() / of the generator it drives
    idx,              \* index into countries of the generator's for loop
    countries,        \* scan_data_folder's local `countries`
    walk,             \* the files visited by the last os.walk(country_path), in order
    rec,              \* the record main() holds (the last one yielded)
    collection,       \* main()'s country_collection
    catalog,          \* the root catalog
    saves,            \* number of normalize_and_save calls
    saved,            \* what normalize_and_save was given
    sdg_summary_file_path, \* scan_data_folder's local of that name
    log,              \* warnings and errors the logger received, in order
    doc,              \* extraction unit: the summary document
    props             \* extraction unit: what the two extractors returned

\* the file system: read, never written
input == <<dataFolderExists, dirs, tree>>
\* the locals of scan_data_folder
scan == <<idx, countries, walk, sdg_summary_file_path>>
\* the extraction unit
unit == <<doc, props>>

vars == <<input, scan, pc, rec, collection, catalog, saves, saved, log, unit>>

----------------------------------------------------------------------------
(* Bounds *)

MaxFiles == 2
MaxYears == 2
MaxEighths == 3

----------------------------------------------------------------------------
(* Python str operations used by the scan *)

\* `sub in s`
Contains(sub, s) ==
    \E i \in 0..(Len(s) - Len(sub)) : SubSeq(s, i + 1, i + Len(sub)) = sub

\* s.startswith(p)
StartsWith(s, p) == Len(s) >= Len(p) /\ SubSeq(s, 1, Len(p)) = p

\* s.endswith(p)
EndsWith(s, p) == Len(s) >= Len(p) /\ SubSeq(s, Len(s) - Len(p) + 1, Len(s)) = p

\* s.replace(a, b) for single characters a, b
Replace(s, a, b) == [i \in 1..Len(s) |-> IF s[i] = a THEN b ELSE s[i]]

\* file.replace('.', '_')
AssetKey(file) == Replace(file, ".", "_")

DROUGHT == <<"d","r","o","u","g","h","t">>
SDG == <<"s","d","g","-","1","5","-","3","-","1">>
SDG_SUMMARY_PREFIX == <<"s","d","g","-","1","5","-","3","-","1","-","s","u","m","m","a","r","y","_">>
JSON_SUFFIX == <<".","j","s","o","n">>
DROUGHT_SUMMARY == <<"d","r","o","u","g","h","t","-","v","u","l","n","e","r","a","b","i","l","i","t","y","-","s","u","m","m","a","r","y","_","0",".","j","s","o","n">>

----------------------------------------------------------------------------
(* JSON values and Python's view of them *)

JNull == [t |-> "null"]
JStr(s) == [t |-> "str", s |-> s]
JNum(n, d) == [t |-> "num", n |-> n, d |-> d]
JList(xs) == [t |-> "list", xs |-> xs]
\* a dict: its (key, value) pairs in insertion order
JObj(items) == [t |-> "obj", items |-> items]
\* an exception propagating out of an expression
Raise == [t |-> "raise"]

HasKey(items, k) == \E i \in 1..Len(items) : items[i][1] = k
Lookup(items, k) == items[CHOOSE i \in 1..Len(items) : items[i][1] = k][2]

\* bool(v)
Truthy(v) ==
    CASE v.t = "null" -> FALSE
      [] v.t = "obj" -> Len(v.items) > 0
      [] v.t = "list" -> Len(v.xs) > 0
      [] v.t = "str" -> v.s # ""
      [] v.t = "num" -> v.n # 0
      [] OTHER -> TRUE

\* v.get(k, d): AttributeError unless v is a dict
PyGet(v, k, d) ==
    IF v.t = "raise" THEN Raise
    ELSE IF v.t # "obj" THEN Raise
    ELSE IF HasKey(v.items, k) THEN Lookup(v.items, k)
    ELSE d

\* v.get(k)
PyGet1(v, k) == PyGet(v, k, JNull)

EmptyDict == JObj(<<>>)

RECURSIVE PyGetPath(_, _)
\* v.get(k1, {}).get(k2, {})... along path
PyGetPath(v, path) ==
    IF Len(path) = 0 THEN v
    ELSE PyGetPath(PyGet(v, Head(path), EmptyDict), Tail(path))

AnyRaise(items) == \E i \in 1..Len(items) : items[i][2].t = "raise"

\* a dict display whose value expressions may raise
Dict(items) == IF AnyRaise(items) THEN Raise ELSE JObj(items)

----------------------------------------------------------------------------
(* Python numbers *)

DigitVal(c) ==
    CASE c = "0" -> 0 [] c = "1" -> 1 [] c = "2" -> 2 [] c = "3" -> 3
      [] c = "4" -> 4 [] c = "5" -> 5 [] c = "6" -> 6 [] c = "7" -> 7
      [] c = "8" -> 8 [] c = "9" -> 9 [] OTHER -> -1

RECURSIVE DigitsValue(_)
DigitsValue(s) ==
    IF Len(s) = 0 THEN 0
    ELSE 10 * DigitsValue(SubSeq(s, 1, Len(s) - 1)) + DigitVal(s[Len(s)])

\* int(s) for a str of decimal digits: ValueError otherwise
PyInt(s) ==
    IF Len(s) = 0 \/ \E i \in 1..Len(s) : DigitVal(s[i]) < 0 THEN Raise
    ELSE JNum(DigitsValue(s), 1)

\* a + b: TypeError unless both are numbers
PyAdd(a, b) ==
    IF a.t # "num" \/ b.t # "num" THEN Raise
    ELSE IF a.d = b.d THEN JNum(a.n + b.n, a.d)
    ELSE JNum(a.n * b.d + b.n * a.d, a.d * b.d)

RECURSIVE PySumFrom(_, _, _)
PySumFrom(acc, xs, i) ==
    IF i > Len(xs) THEN acc ELSE PySumFrom(PyAdd(acc, xs[i]), xs, i + 1)

\* sum(xs), starting from the int 0
PySum(xs) == PySumFrom(JNum(0, 1), xs, 1)

\* Round2 with an exact tie going up instead of to the even hundredth
Round2_half_up(x) ==
    IF x.t # "num" THEN Raise
    ELSE IF x.d = 1 THEN x
    ELSE LET h == (100 * x.n) \div x.d
             r == (100 * x.n) % x.d
         IN IF 2 * r < x.d THEN JNum(h, 100) ELSE JNum(h + 1, 100)

\* round(x, 2): an int is returned as is; a float goes to the nearest
\* hundredth, an exact tie to the even one
Round2(x) ==
    IF x.t # "num" THEN Raise
    ELSE IF x.d = 1 THEN x
    ELSE LET h == (100 * x.n) \div x.d
             r == (100 * x.n) % x.d
         IN IF 2 * r < x.d THEN JNum(h, 100)
            ELSE IF 2 * r > x.d THEN JNum(h + 1, 100)
            ELSE IF h % 2 = 0 THEN JNum(h, 100)
            ELSE JNum(h + 1, 100)

\* a == b on two numbers
NumEq(a, b) == a.t = "num" /\ b.t = "num" /\ a.n * b.d = b.n * a.d

----------------------------------------------------------------------------
(* Property extraction *)

\* d.values() of a dict's item sequence
DictValues(items) == [i \in 1..Len(items) |-> items[i][2]]

WATER_BODY == "Water body"

VALUES_PATH == <<"results", "data", "report", "land_condition", "baseline",
                 "land_cover", "land_cover_areas_by_year">>

\* the fields both extractors copy
CommonProperties(summary_data) ==
    << <<"id", PyGet1(summary_data, "id")>>,
       <<"status", PyGet1(summary_data, "status")>>,
       <<"start_date", PyGet1(summary_data, "start_date")>>,
       <<"end_date", PyGet1(summary_data, "end_date")>>,
       <<"progress", PyGet1(summary_data, "progress")>>,
       <<"task_name", PyGet1(summary_data, "task_name")>>,
       <<"script_version",
         PyGet1(PyGetPath(summary_data, <<"script">>), "version")>>,
       <<"area_of_interest",
         PyGet1(PyGetPath(summary_data, <<"local_context">>),
                "area_of_interest_name")>> >>

extract_properties_from_drought_summary(summary_data) ==
    IF ~Truthy(summary_data) THEN EmptyDict
    ELSE Dict(CommonProperties(summary_data) \o
              << <<"drought_summary",
                   PyGet1(PyGetPath(summary_data, <<"results", "data", "report">>),
                          "drought")>> >>)

\* one iteration of `for year, classes in values.items()`
YearRecord(year, classes) ==
    IF classes.t # "obj" THEN Raise
    ELSE LET total_land_area == PySum(DictValues(classes.items))
             water_bodies == PyGet(classes, WATER_BODY, JNum(0, 1))
         IN Dict(<< <<"year", PyInt(year)>>,
                    <<"total_land_area_km2",
                      IF total_land_area.t = "raise" THEN Raise
                      ELSE Round2(total_land_area)>>,
                    <<"water_bodies_km2", Round2(water_bodies)>> >>)

LandCoverByYear(values) ==
    IF values.t # "obj" THEN Raise
    ELSE LET recs == [i \in 1..Len(values.items) |->
                         YearRecord(values.items[i][1], values.items[i][2])]
         IN IF \E i \in 1..Len(recs) : recs[i].t = "raise" THEN Raise
            ELSE JList(recs)

extract_properties_from_sdg_summary(summary_data) ==
    IF ~Truthy(summary_data) THEN EmptyDict
    ELSE LET values == PyGet(PyGetPath(summary_data, VALUES_PATH),
                             "values", EmptyDict)
         IN Dict(CommonProperties(summary_data) \o
                 << <<"sdg_summary",
                      PyGet(PyGetPath(summary_data,
                                      <<"land_condition", "baseline", "sdg">>),
                            "summary", EmptyDict)>>,
                    <<"land_cover_by_year", LandCoverByYear(values)>> >>)

----------------------------------------------------------------------------
(* The file system under the data root *)

Countries == {"kenya", "uganda"}

\* directories of a country's subtree, relative to the country directory,
\* in the top-down order in which os.walk visits them
Subdirs == <<"", "maps">>

SDG_SUMMARY_0 == <<"s","d","g","-","1","5","-","3","-","1","-","s","u","m","m","a","r","y","_","0",".","j","s","o","n">>
SDG_SUMMARY_1 == <<"s","d","g","-","1","5","-","3","-","1","-","s","u","m","m","a","r","y","_","1",".","j","s","o","n">>
DROUGHT_INDEX_DOT == <<"d","r","o","u","g","h","t","_","i","n","d","e","x",".","2","0","2","0",".","t","i","f">>
DROUGHT_INDEX_USC == <<"d","r","o","u","g","h","t","_","i","n","d","e","x","_","2","0","2","0",".","t","i","f">>
SDG_TIF == <<"s","d","g","-","1","5","-","3","-","1",".","t","i","f">>
DROUGHT_SDG_TIF == <<"d","r","o","u","g","h","t","_","s","d","g","-","1","5","-","3","-","1",".","t","i","f">>
README == <<"r","e","a","d","m","e",".","t","x","t">>

FileNames == {DROUGHT_SUMMARY, SDG_SUMMARY_0, SDG_SUMMARY_1, DROUGHT_INDEX_DOT,
              DROUGHT_INDEX_USC, SDG_TIF, DROUGHT_SDG_TIF, README}

\* what a file holds: bytes nobody parses, text that is not JSON, or a JSON value
Data == [t |-> "data"]
Malformed == [t |-> "malformed"]

Year2020 == <<"2","0","2","0">>
Year2021 == <<"2","0","2","1">>

\* a land_cover_areas_by_year.values mapping nested at the path the
\* extractor reads
AtValuesPath(values) ==
    JObj(<< <<"data", JObj(<< <<"report", JObj(<< <<"land_condition",
      JObj(<< <<"baseline", JObj(<< <<"land_cover",
        JObj(<< <<"land_cover_areas_by_year",
          JObj(<< <<"values", values>> >>) >> >>) >> >>) >> >>) >>,
      <<"drought", JStr("drought-report")>> >>) >> >>) >> >>)

\* years 2020 {Forest 10.0, Water body 2.5} and 2021 {Forest 12.0}
SampleValues ==
    JObj(<< <<Year2020, JObj(<< <<"Forest", JNum(80, 8)>>,
                                <<WATER_BODY, JNum(20, 8)>> >>)>>,
            <<Year2021, JObj(<< <<"Forest", JNum(96, 8)>> >>)>> >>)

\* a summary as the upstream job writes it
SampleSummary ==
    JObj(<< <<"id", JStr("job-1")>>,
            <<"status", JStr("FINISHED")>>,
            <<"script", JObj(<< <<"version", JStr("2.1")>> >>)>>,
            <<"results", AtValuesPath(SampleValues)>> >>)

\* a summary whose "script" is null
NullScriptSummary == JObj(<< <<"id", JStr("job-2")>>, <<"script", JNull>> >>)

SummaryContents == {Malformed, SampleSummary, NullScriptSummary}

IsSdgSummaryName(file) ==
    StartsWith(file, SDG_SUMMARY_PREFIX) /\ EndsWith(file, JSON_SUFFIX)

\* the files scan_data_folder opens: those directly in the country directory
\* that carry a summary name
IsRead(dir, name) == dir = "" /\ (name = DROUGHT_SUMMARY \/ IsSdgSummaryName(name))

File(country, dir, name, content) ==
    [country |-> country, dir |-> dir, name |-> name, content |-> content]

FilesOf(cs) ==
    {f \in {File(c, Subdirs[d], n, x) :
               c \in cs, d \in 1..Len(Subdirs), n \in FileNames,
               x \in {Data} \cup SummaryContents} :
        (f.content = Data) <=> ~IsRead(f.dir, f.name)}

PathOf(f) == <<f.country, f.dir, f.name>>

RECURSIVE TreesUpTo(_, _)
\* the sets of at most n files, no two at the same path
TreesUpTo(files, n) ==
    IF n = 0 THEN {{}}
    ELSE LET smaller == TreesUpTo(files, n - 1)
         IN smaller \cup
            UNION {{t \cup {f} :
                      f \in {g \in files : \A h \in t : PathOf(h) # PathOf(g)}} :
                   t \in smaller}

Range(s) == {s[i] : i \in 1..Len(s)}

\* the orders in which a directory listing can return the members of S
Orders(S) ==
    {s \in [1..Cardinality(S) -> S] : \A i, j \in 1..Cardinality(S) : s[i] = s[j] => i = j}

\* the listings of the data root: any subset of the countries in any order
DirListings == UNION {Orders(cs) : cs \in SUBSET Countries}

----------------------------------------------------------------------------
(* scan_data_folder *)

None == [t |-> "none"]

LogEntry(level, event, path) == [level |-> level, event |-> event, path |-> path]

\* read_summary_json(file_path): the parsed document or None, and what it logs
read_summary_json(files, file_path) ==
    IF ~\E f \in files : PathOf(f) = file_path
    THEN [val |-> JNull, log |-> <<LogEntry("WARNING", "does not exist", file_path)>>]
    ELSE LET f == CHOOSE g \in files : PathOf(g) = file_path
         IN IF f.content.t \in {"malformed", "data"}
            THEN [val |-> JNull, log |-> <<LogEntry("ERROR", "Error parsing JSON", file_path)>>]
            ELSE [val |-> f.content, log |-> <<>>]

\* os.path.relpath(os.path.join(root, file), start=data_folder)
RelPath(f) == <<f.country, f.dir, f.name>>

\* Put that keeps the entry a key already has (setdefault)
Put_keep_first(d, k, v) ==
    IF \E e \in d : e[1] = k THEN d ELSE d \cup {<<k, v>>}

\* d[k] = v on a dict kept as a set of (key, value) pairs
Put(d, k, v) == {e \in d : e[1] # k} \cup {<<k, v>>}

\* ClassifyFile without the exclusion of the drought summary file
ClassifyFile_no_exclusion(datasets, f) ==
    IF Contains(DROUGHT, f.name)
    THEN [datasets EXCEPT !.drought = Put(@, AssetKey(f.name), RelPath(f))]
    ELSE IF Contains(SDG, f.name)
    THEN [datasets EXCEPT !.sdg = Put(@, AssetKey(f.name), RelPath(f))]
    ELSE datasets

\* ClassifyFile with `if` in place of `elif`: the two rules tried independently
ClassifyFile_independent(datasets, f) ==
    LET after == IF Contains(DROUGHT, f.name) /\ f.name # DROUGHT_SUMMARY
                 THEN [datasets EXCEPT !.drought = Put(@, AssetKey(f.name), RelPath(f))]
                 ELSE datasets
    IN IF Contains(SDG, f.name)
       THEN [after EXCEPT !.sdg = Put(@, AssetKey(f.name), RelPath(f))]
       ELSE after

\* the body of `for file in files:` (lines 201-208)
ClassifyFile(datasets, f) ==
    IF Contains(DROUGHT, f.name) /\ f.name # DROUGHT_SUMMARY
    THEN [datasets EXCEPT !.drought = Put(@, AssetKey(f.name), RelPath(f))]
    ELSE IF Contains(SDG, f.name)
    THEN [datasets EXCEPT !.sdg = Put(@, AssetKey(f.name), RelPath(f))]
    ELSE datasets

RECURSIVE ClassifyAll(_, _, _)
ClassifyAll(datasets, visited, i) ==
    IF i > Len(visited) THEN datasets
    ELSE ClassifyAll(ClassifyFile(datasets, visited[i]), visited, i + 1)

RECURSIVE WalkOrdersFrom(_, _)
\* os.walk(country_path): directory by directory top-down, the files of one
\* directory in the order the listing returns them
WalkOrdersFrom(files, d) ==
    IF d > Len(Subdirs) THEN {<<>>}
    ELSE {a \o b : a \in Orders({f \in files : f.dir = Subdirs[d]}),
                   b \in WalkOrdersFrom(files, d + 1)}

WalkOrders(files) == WalkOrdersFrom(files, 1)

\* lines 187-191: the first listed file with the summary prefix and suffix
SdgSummaryChoices(files) ==
    LET matches == {f \in files : f.dir = "" /\ IsSdgSummaryName(f.name)}
    IN IF matches = {} THEN {None} ELSE {[t |-> "path", path |-> PathOf(f)] : f \in matches}

\* ScanStart without the existence test: walking a missing folder yields
\* nothing and logs nothing
ScanStart_unchecked ==
    /\ pc = "scan_start"
    /\ countries' = dirs
    /\ idx' = 1
    /\ pc' = "scan"
    /\ UNCHANGED <<input, walk, sdg_summary_file_path, rec, collection, catalog,
                   saves, saved, log, unit>>

\* lines 170-179
ScanStart ==
    /\ pc = "scan_start"
    /\ IF ~dataFolderExists
       THEN /\ log' = Append(log, LogEntry("ERROR", "Data folder does not exist", <<>>))
            /\ pc' = "save"
            /\ UNCHANGED <<countries, idx>>
       ELSE /\ countries' = dirs
            /\ idx' = 1
            /\ pc' = "scan"
            /\ log' = log
    /\ UNCHANGED <<input, walk, sdg_summary_file_path, rec, collection, catalog,
                   saves, saved, unit>>

\* lines 181-209: one iteration of `for country in countries`, up to the yield
ScanCountry ==
    /\ pc = "scan"
    /\ idx <= Len(countries)
    /\ LET country == countries[idx]
           files == {f \in tree : f.country = country}
       IN \E located \in SdgSummaryChoices(files),
             visited \in WalkOrders(files) :
            LET drought_read == read_summary_json(files, <<country, "", DROUGHT_SUMMARY>>)
                sdg_read == IF located.t = "path"
                            THEN read_summary_json(files, located.path)
                            ELSE [val |-> EmptyDict, log |-> <<>>]
                drought_properties ==
                    extract_properties_from_drought_summary(drought_read.val)
                sdg_properties == extract_properties_from_sdg_summary(sdg_read.val)
                datasets == ClassifyAll([drought |-> {}, sdg |-> {}], visited, 1)
            IN /\ sdg_summary_file_path' = located
               /\ log' = log \o drought_read.log \o sdg_read.log
               /\ IF drought_properties.t = "raise" \/ sdg_properties.t = "raise"
                  THEN /\ pc' = "crashed"
                       /\ UNCHANGED <<walk, rec>>
                  ELSE /\ pc' = "yielded"
                       /\ walk' = visited
                       /\ rec' = [country |-> country,
                                  datasets |-> datasets,
                                  drought_properties |-> drought_properties,
                                  sdg_properties |-> sdg_properties]
    /\ UNCHANGED <<input, idx, countries, collection, catalog, saves, saved, unit>>

\* the for loop of line 181 runs out: the generator returns
ScanExhausted ==
    /\ pc = "scan"
    /\ idx > Len(countries)
    /\ pc' = "save"
    /\ UNCHANGED <<input, scan, rec, collection, catalog, saves, saved, log, unit>>

----------------------------------------------------------------------------
(* main *)

\* f"{a}{b}"
Fmt(a, b) == <<a, b>>

create_root_catalog == [id |-> "trends-earth-catalog", children |-> <<>>]

create_country_collection(country_name) ==
    [id |-> Fmt(country_name, "-collection"), items |-> <<>>]

\* the id, the properties and one asset per entry of `assets`; the geometry,
\* bbox and datetime of the Item and its description argument decide nothing
create_country_item(country_name, item_id, assets, properties) ==
    [id |-> item_id,
     properties |-> IF Truthy(properties) THEN properties ELSE EmptyDict,
     assets |-> assets]

\* collection.add_item(item)
add_item(coll, item) == [coll EXCEPT !.items = Append(@, item)]

\* add_child that leaves out a collection without items
add_child_skip_empty(cat, child) ==
    IF child.items = <<>> THEN cat ELSE [cat EXCEPT !.children = Append(@, child)]

\* catalog.add_child(child)
add_child(cat, child) == [cat EXCEPT !.children = Append(@, child)]

\* line 218
CreateCatalog ==
    /\ pc = "start"
    /\ catalog' = create_root_catalog
    /\ pc' = "scan_start"
    /\ UNCHANGED <<input, scan, rec, collection, saves, saved, log, unit>>

\* lines 221-234
AddDroughtItem ==
    /\ pc = "yielded"
    /\ LET country_collection == create_country_collection(rec.country)
       IN collection' =
            IF rec.datasets.drought # {}
            THEN add_item(country_collection,
                          create_country_item(rec.country,
                                              Fmt(rec.country, "_drought"),
                                              rec.datasets.drought,
                                              rec.drought_properties))
            ELSE country_collection
    /\ pc' = "sdg"
    /\ UNCHANGED <<input, scan, rec, catalog, saves, saved, log, unit>>

\* lines 236-245
AddSdgItem ==
    /\ pc = "sdg"
    /\ collection' =
            IF rec.datasets.sdg # {}
            THEN add_item(collection,
                          create_country_item(rec.country,
                                              Fmt(rec.country, "_sdg_15_3_1"),
                                              rec.datasets.sdg,
                                              rec.sdg_properties))
            ELSE collection
    /\ pc' = "child"
    /\ UNCHANGED <<input, scan, rec, catalog, saves, saved, log, unit>>

\* AddChild with the save indented into the loop body
AddChild_saving ==
    /\ pc = "child"
    /\ catalog' = [catalog EXCEPT !.children = Append(@, collection)]
    /\ saves' = saves + 1
    /\ saved' = catalog'
    /\ idx' = idx + 1
    /\ pc' = "scan"
    /\ UNCHANGED <<input, countries, walk, sdg_summary_file_path, rec,
                   collection, log, unit>>

\* line 247, and control returns to the generator's loop
AddChild ==
    /\ pc = "child"
    /\ catalog' = add_child(catalog, collection)
    /\ idx' = idx + 1
    /\ pc' = "scan"
    /\ UNCHANGED <<input, countries, walk, sdg_summary_file_path, rec,
                   collection, saves, saved, log, unit>>

\* lines 249-252
Save ==
    /\ pc = "save"
    /\ saves' = saves + 1
    /\ saved' = catalog
    /\ pc' = "done"
    /\ UNCHANGED <<input, scan, rec, collection, catalog, log, unit>>

Init ==
    /\ dataFolderExists \in BOOLEAN
    /\ dirs \in (IF dataFolderExists THEN DirListings ELSE {<<>>})
    /\ tree \in TreesUpTo(FilesOf(Range(dirs)), MaxFiles)
    /\ pc = "start"
    /\ idx = 0
    /\ countries = <<>>
    /\ walk = <<>>
    /\ sdg_summary_file_path = None
    /\ rec = None
    /\ collection = None
    /\ catalog = None
    /\ saves = 0
    /\ saved = None
    /\ log = <<>>
    /\ doc = JNull
    /\ props = None

Next ==
    \/ CreateCatalog
    \/ ScanStart
    \/ ScanCountry
    \/ ScanExhausted
    \/ AddDroughtItem
    \/ AddSdgItem
    \/ AddChild
    \/ Save

Spec == Init /\ [][Next]_vars

----------------------------------------------------------------------------
(* The extractors on their own: the documents they are applied to *)

YearKeys == <<Year2020, Year2021, <<"2","0","1","9">>, <<"2","0","2","2">> >>

\* the {class name -> area} mappings of one year whose areas, in eighths of
\* a km2, add up to at most b: Forest always, Water body optionally
ClassMaps(b) ==
    {JObj(<< <<"Forest", JNum(f, 8)>> >>) : f \in 0..b}
    \cup {JObj(<< <<"Forest", JNum(fw[1], 8)>>, <<WATER_BODY, JNum(fw[2], 8)>> >>) :
            fw \in {x \in (0..b) \X (0..b) : x[1] + x[2] <= b}}

\* the eighths of one class mapping
ClassEighths(classes) ==
    IF Len(classes.items) = 1 THEN classes.items[1][2].n
    ELSE classes.items[1][2].n + classes.items[2][2].n

RECURSIVE Eighths(_)
\* the eighths of a year -> classes item sequence
Eighths(items) ==
    IF Len(items) = 0 THEN 0
    ELSE ClassEighths(items[Len(items)][2]) + Eighths(SubSeq(items, 1, Len(items) - 1))

RECURSIVE ValueItems(_)
\* the item sequences of at most n years, the years distinct and in any key
\* order, the areas of the whole document within MaxEighths
ValueItems(n) ==
    IF n = 0 THEN {<<>>}
    ELSE LET shorter == ValueItems(n - 1)
         IN shorter \cup
            UNION {{Append(items, <<YearKeys[y], classes>>) :
                       y \in {z \in 1..MaxYears :
                                \A i \in 1..Len(items) : items[i][1] # YearKeys[z]},
                       classes \in ClassMaps(MaxEighths - Eighths(items))} :
                   items \in {v \in shorter : Len(v) = n - 1}}

\* well-formed summaries: a year -> classes mapping at the path read
LandCoverDocs ==
    {JObj(<< <<"id", JStr("job-1")>>, <<"results", AtValuesPath(JObj(items))>> >>) :
        items \in ValueItems(MaxYears) \cup {SampleValues.items}}

\* an optional field: absent, or present with one of the given values
Opt(key, values) == {<<>>} \cup {<< <<key, v>> >> : v \in values}

ScriptValues == {JNull, EmptyDict, JObj(<< <<"version", JStr("2.1")>> >>)}
LocalContextValues ==
    {JNull, JObj(<< <<"area_of_interest_name", JStr("Kenya")>> >>)}
ResultsValues ==
    {JNull, EmptyDict,
     JObj(<< <<"data", JNull>> >>),
     JObj(<< <<"data", JObj(<< <<"report", JNull>> >>)>> >>),
     JObj(<< <<"data", JObj(<< <<"report", JObj(<< <<"drought", JStr("d")>> >>)>> >>)>> >>),
     JObj(<< <<"data", JObj(<< <<"report", JObj(<< <<"land_condition", JNull>> >>)>> >>)>> >>),
     AtValuesPath(JNull),
     AtValuesPath(SampleValues)}
LandConditionValues ==
    {JNull,
     JObj(<< <<"baseline", JObj(<< <<"sdg", JObj(<< <<"summary", JStr("s")>> >>)>> >>)>> >>)}

\* summaries with keys of the nested paths missing or null
PartialDocs ==
    {JObj(a \o b \o c \o d \o e) :
        a \in Opt("id", {JStr("job-1")}),
        b \in Opt("script", ScriptValues),
        c \in Opt("local_context", LocalContextValues),
        d \in Opt("results", ResultsValues),
        e \in Opt("land_condition", LandConditionValues)}

ExtractDocs == {JNull} \cup PartialDocs \cup LandCoverDocs

ExtractDrought ==
    /\ pc = "unit"
    /\ props = None
    /\ props' = [fn |-> "drought", out |-> extract_properties_from_drought_summary(doc)]
    /\ UNCHANGED <<input, scan, pc, rec, collection, catalog, saves, saved, log, doc>>

ExtractSdg ==
    /\ pc = "unit"
    /\ props = None
    /\ props' = [fn |-> "sdg", out |-> extract_properties_from_sdg_summary(doc)]
    /\ UNCHANGED <<input, scan, pc, rec, collection, catalog, saves, saved, log, doc>>

ExtractInit ==
    /\ doc \in ExtractDocs
    /\ props = None
    /\ pc = "unit"
    /\ dataFolderExists = FALSE
    /\ dirs = <<>>
    /\ tree = {}
    /\ idx = 0
    /\ countries = <<>>
    /\ walk = <<>>
    /\ sdg_summary_file_path = None
    /\ rec = None
    /\ collection = None
    /\ catalog = None
    /\ saves = 0
    /\ saved = None
    /\ log = <<>>

ExtractNext == ExtractDrought \/ ExtractSdg

SpecExtract == ExtractInit /\ [][ExtractNext]_vars

----------------------------------------------------------------------------
(* Vocabulary of the properties *)

\* the collections of a catalog that carry the id derived from country c
CollectionsOf(cat, c) ==
    {i \in 1..Len(cat.children) : cat.children[i].id = <<c, "-collection">>}

HasItem(coll, item_id) == \E i \in 1..Len(coll.items) : coll.items[i].id = item_id

ItemOf(coll, item_id) ==
    coll.items[CHOOSE i \in 1..Len(coll.items) : coll.items[i].id = item_id]

\* main() holds a record and has built (part of) its collection
Building == pc \in {"sdg", "child"}

\* the drought classification rule, on a file name
MatchesDrought(name) == Contains(DROUGHT, name) /\ name # DROUGHT_SUMMARY

\* the SDG token, on a file name
HasSdgToken(name) == Contains(SDG, name)

\* the filename with every '.' replaced by '_'
IsSanitized(key, name) ==
    /\ Len(key) = Len(name)
    /\ \A j \in 1..Len(name) : key[j] = (IF name[j] = "." THEN "_" ELSE name[j])

DroughtKeys == {"id", "status", "start_date", "end_date", "progress", "task_name",
                "script_version", "area_of_interest", "drought_summary"}
SdgKeys == {"id", "status", "start_date", "end_date", "progress", "task_name",
            "script_version", "area_of_interest", "sdg_summary", "land_cover_by_year"}

KeysOf(obj) == {obj.items[i][1] : i \in 1..Len(obj.items)}

----------------------------------------------------------------------------
(* Properties of the run (specification Spec) *)

\* C1: once main() has saved, the root catalog's children correspond one to
\* one to the immediate subdirectories of the data root: exactly one
\* collection '<country>-collection' per subdirectory, none for anything
\* else, whether or not the country has any dataset file.  While the run is
\* under way no collection is duplicated or foreign either.
C1_CollectionsMatchSubdirectories ==
    /\ pc \notin {"start"} =>
         /\ \A c \in Range(dirs) : Cardinality(CollectionsOf(catalog, c)) <= 1
         /\ \A i \in 1..Len(catalog.children) :
               \E c \in Range(dirs) : i \in CollectionsOf(catalog, c)
    /\ pc = "done" =>
         /\ \A c \in Range(dirs) : Cardinality(CollectionsOf(saved, c)) = 1
         /\ \A i \in 1..Len(saved.children) :
               \E c \in Range(dirs) : i \in CollectionsOf(saved, c)
         /\ Len(saved.children) = Len(dirs)

\* a saved catalog of two countries, one with an item and one with no
\* dataset file at all and so an empty collection
C1_Witness ==
    /\ pc = "done"
    /\ Len(dirs) = 2
    /\ \E i, j \in 1..Len(saved.children) :
          /\ saved.children[i].items = <<>>
          /\ saved.children[j].items # <<>>
          /\ \A f \in tree : f.country # dirs[i]

\* C2: the item '<country>_drought' is in the country's collection if and only
\* if some file of the country's subtree has a name that contains 'drought'
\* and is not 'drought-vulnerability-summary_0.json'.
C2_DroughtItemIffDroughtFile ==
    /\ Building =>
         (HasItem(collection, <<rec.country, "_drought">>)
            <=> \E f \in tree : f.country = rec.country /\ MatchesDrought(f.name))
    /\ pc = "done" =>
         \A c \in Range(dirs) : \A i \in CollectionsOf(saved, c) :
            HasItem(saved.children[i], <<c, "_drought">>)
              <=> \E f \in tree : f.country = c /\ MatchesDrought(f.name)

\* a saved catalog with a drought item for a country that also has the
\* drought summary file, and a country whose only 'drought' file is that
\* summary and so has no drought item
C2_Witness ==
    /\ pc = "done"
    /\ \E i, j \in 1..Len(saved.children) :
          /\ HasItem(saved.children[i], <<dirs[i], "_drought">>)
          /\ ~HasItem(saved.children[j], <<dirs[j], "_drought">>)
          /\ \E f \in tree : f.country = dirs[j] /\ f.name = DROUGHT_SUMMARY

\* C3 as stated: the item '<country>_sdg_15_3_1' is present if and only if some
\* file name contains 'sdg-15-3-1', also when that name contains 'drought'.
C3_SdgItemIffSdgToken ==
    pc = "done" =>
       \A c \in Range(dirs) : \A i \in CollectionsOf(saved, c) :
          HasItem(saved.children[i], <<c, "_sdg_15_3_1">>)
            <=> \E f \in tree : f.country = c /\ HasSdgToken(f.name)

\* C3 amended: the item '<country>_sdg_15_3_1' is present if and only if some
\* file name contains 'sdg-15-3-1' and does not contain 'drought' (the drought
\* rule is tried first and claims a name that contains both).
C3_SdgItemIffSdgNotDrought ==
    /\ pc = "child" =>
         (HasItem(collection, <<rec.country, "_sdg_15_3_1">>)
            <=> \E f \in tree : /\ f.country = rec.country
                                /\ HasSdgToken(f.name)
                                /\ ~Contains(DROUGHT, f.name))
    /\ pc = "done" =>
         \A c \in Range(dirs) : \A i \in CollectionsOf(saved, c) :
            HasItem(saved.children[i], <<c, "_sdg_15_3_1">>)
              <=> \E f \in tree : /\ f.country = c
                                  /\ HasSdgToken(f.name)
                                  /\ ~Contains(DROUGHT, f.name)

\* a saved catalog where one country has a file named with both tokens and
\* no SDG item, and another country has an SDG item
C3_Witness ==
    /\ pc = "done"
    /\ \E i, j \in 1..Len(saved.children) :
          /\ \E f \in tree : /\ f.country = dirs[i]
                             /\ HasSdgToken(f.name) /\ Contains(DROUGHT, f.name)
          /\ ~HasItem(saved.children[i], <<dirs[i], "_sdg_15_3_1">>)
          /\ HasItem(saved.children[j], <<dirs[j], "_sdg_15_3_1">>)

\* the drought summary of country c is missing or is not JSON
DroughtSummaryUnreadable(c) ==
    \A f \in tree : PathOf(f) = <<c, "", DROUGHT_SUMMARY>> => f.content = Malformed

\* C6: with the drought summary of a country missing or malformed, the
\* country's drought item carries the all-null default mapping: every fixed
\* property key present, each with a null value.
C6_UnreadableSummaryGivesNullDefaults ==
    (Building /\ DroughtSummaryUnreadable(rec.country)
        /\ HasItem(collection, <<rec.country, "_drought">>)) =>
       LET properties == ItemOf(collection, <<rec.country, "_drought">>).properties
       IN /\ KeysOf(properties) = DroughtKeys
          /\ \A i \in 1..Len(properties.items) : properties.items[i][2] = JNull

\* C7: a data root that does not exist makes the scan log one error and
\* yield nothing; a data root that does not exist or has no subdirectory
\* lets main() run to the save without an exception, and what is saved is the
\* root catalog with no collection.
C7_EmptyRootSavesBareCatalog ==
    /\ (~dataFolderExists /\ pc \in {"save", "done"}) =>
          /\ log = <<LogEntry("ERROR", "Data folder does not exist", <<>>)>>
          /\ rec = None
    /\ (~dataFolderExists \/ dirs = <<>>) =>
          /\ pc \in {"start", "scan_start", "scan", "save", "done"}
          /\ pc # "done" => ENABLED Next
          /\ pc = "done" => /\ saved.id = "trends-earth-catalog"
                            /\ saved.children = <<>>
                            /\ saves = 1

C7_Witness ==
    /\ pc = "done"
    /\ ~dataFolderExists
    /\ saved.children = <<>>
    /\ Len(log) = 1

\* C8: neither the drought summary file nor the SDG summary file located for
\* the country is an entry of either asset map, and no file is in both maps.
C8_SummaryFilesNeverAssets ==
    pc \in {"yielded", "sdg", "child"} =>
       /\ \A e \in rec.datasets.drought \cup rec.datasets.sdg :
             /\ e[2] # <<rec.country, "", DROUGHT_SUMMARY>>
             /\ sdg_summary_file_path.t = "path" => e[2] # sdg_summary_file_path.path
       /\ \A e \in rec.datasets.drought : \A g \in rec.datasets.sdg : e[2] # g[2]

\* C9: a collection enters the catalog only complete (its items added
\* before), and is never changed afterwards; normalize_and_save runs at most
\* once, only when every discovered country has been consumed and its
\* collection added, and exactly once in a run that reaches its end, records
\* or no records.
C9_ItemsThenChildThenOneSave ==
    /\ [](/\ saves <= 1
          /\ saves = 1 <=> pc = "done"
          /\ pc \in {"save", "done"} =>
                /\ Len(catalog.children) = Len(countries)
                /\ countries = dirs
                /\ pc = "done" => saved = catalog)
    /\ [][(pc # "start" /\ catalog' # catalog) =>
             /\ pc = "child"
             /\ saves = 0
             /\ catalog'.children = Append(catalog.children, collection)
             /\ Len(collection.items) =
                    (IF rec.datasets.drought # {} THEN 1 ELSE 0)
                  + (IF rec.datasets.sdg # {} THEN 1 ELSE 0)]_vars
    /\ [][saves' # saves =>
             /\ pc = "save"
             /\ saved' = catalog
             /\ \A c \in Range(dirs) : CollectionsOf(catalog, c) # {}]_vars

\* the save of a catalog of two collections, and the second with two items
C9_Witness ==
    /\ pc = "done"
    /\ saves = 1
    /\ Len(saved.children) = 2
    /\ Len(saved.children[2].items) = 2

\* the positions of the walk whose file went to the drought / the SDG map
DroughtVisits == {i \in 1..Len(walk) : MatchesDrought(walk[i].name)}
SdgVisits ==
    {i \in 1..Len(walk) : ~MatchesDrought(walk[i].name) /\ HasSdgToken(walk[i].name)}

\* map holds one entry per sanitized key of the visited files, with the path
\* of the file of that key visited last
OneEntryPerKeyLastWins(map, visits) ==
    /\ \A e, g \in map : e[1] = g[1] => e = g
    /\ \A i \in visits : \E e \in map : IsSanitized(e[1], walk[i].name)
    /\ \A e \in map : \E i \in visits :
          /\ IsSanitized(e[1], walk[i].name)
          /\ e[2] = <<walk[i].country, walk[i].dir, walk[i].name>>
          /\ \A j \in visits : (j > i) => ~IsSanitized(e[1], walk[j].name)
    /\ Cardinality(map) <= Cardinality(visits)

\* C10: an asset map has a single entry per sanitized key, with the path of
\* the file visited last in the walk; the item has one asset per entry, so as
\* many assets as distinct sanitized keys, never more than classified files.
C10_KeyCollisionsKeepLastFile ==
    /\ pc \in {"yielded", "sdg", "child"} =>
          /\ OneEntryPerKeyLastWins(rec.datasets.drought, DroughtVisits)
          /\ OneEntryPerKeyLastWins(rec.datasets.sdg, SdgVisits)
    /\ pc = "child" =>
          /\ HasItem(collection, <<rec.country, "_drought">>) =>
                ItemOf(collection, <<rec.country, "_drought">>).assets
                   = rec.datasets.drought
          /\ HasItem(collection, <<rec.country, "_sdg_15_3_1">>) =>
                ItemOf(collection, <<rec.country, "_sdg_15_3_1">>).assets
                   = rec.datasets.sdg

\* two drought files of one directory whose names differ only in '.' versus
\* '_', and an item with the single asset of the one visited last
C10_Witness ==
    /\ pc = "child"
    /\ Len(walk) = 2
    /\ walk[1].name # walk[2].name
    /\ walk[1].dir = walk[2].dir
    /\ DroughtVisits = {1, 2}
    /\ HasItem(collection, <<rec.country, "_drought">>)
    /\ \E e \in ItemOf(collection, <<rec.country, "_drought">>).assets :
          /\ ItemOf(collection, <<rec.country, "_drought">>).assets = {e}
          /\ e[2] = <<walk[2].country, walk[2].dir, walk[2].name>>

----------------------------------------------------------------------------
(* Properties of the extractors (specification SpecExtract) *)

\* C4: for every summary document, the empty one, the absent one and one
\* with a key of a nested path missing or null included, each extractor
\* returns, and returns a mapping with the complete fixed set of keys.
C4_ExtractionTotalAndComplete ==
    props # None =>
       /\ props.out.t = "obj"
       /\ KeysOf(props.out) = (IF props.fn = "drought" THEN DroughtKeys ELSE SdgKeys)

\* the year -> classes items of a well-formed summary
ValuesOf(d) == PyGet1(PyGetPath(d.items[2][2], Tail(VALUES_PATH)), "values").items

\* the year a key of four digits names
YearNumber(key) ==
    1000 * DigitVal(key[1]) + 100 * DigitVal(key[2])
      + 10 * DigitVal(key[3]) + DigitVal(key[4])

\* the 'Water body' area of a class mapping in eighths, 0 when absent
WaterEighths(classes) ==
    IF \E i \in 1..Len(classes.items) : classes.items[i][1] = WATER_BODY
    THEN classes.items[CHOOSE i \in 1..Len(classes.items) :
                          classes.items[i][1] = WATER_BODY][2].n
    ELSE 0

Abs(x) == IF x < 0 THEN -x ELSE x

\* x is e/8 rounded to 2 decimal places: a whole number h of hundredths at
\* most half a hundredth away, the even one when two are
IsRoundedToHundredths(x, e) ==
    /\ x.t = "num"
    /\ (100 * x.n) % x.d = 0
    /\ LET h == (100 * x.n) \div x.d
       IN /\ Abs(8 * h - 100 * e) <= 4
          /\ Abs(8 * h - 100 * e) = 4 => h % 2 = 0

\* the extractor was applied to a well-formed summary
SdgExtracted == props # None /\ props.fn = "sdg" /\ doc \in LandCoverDocs

LandCover == Lookup(props.out.items, "land_cover_by_year").xs

\* one record per year, in the document's key order, with the numeric year
OneRecordPerYearInOrder ==
    /\ props.out.t = "obj"
    /\ Len(LandCover) = Len(ValuesOf(doc))
    /\ \A i \in 1..Len(LandCover) :
          /\ KeysOf(LandCover[i]) = {"year", "total_land_area_km2", "water_bodies_km2"}
          /\ Lookup(LandCover[i].items, "year") = JNum(YearNumber(ValuesOf(doc)[i][1]), 1)

\* C5 as stated: one record per year in key order; total_land_area_km2 is the
\* sum of all class areas of the year and water_bodies_km2 the 'Water body'
\* area, 0 when absent.
C5_LandCoverExactSums ==
    SdgExtracted =>
       /\ OneRecordPerYearInOrder
       /\ \A i \in 1..Len(LandCover) :
             /\ NumEq(Lookup(LandCover[i].items, "total_land_area_km2"),
                      JNum(ClassEighths(ValuesOf(doc)[i][2]), 8))
             /\ NumEq(Lookup(LandCover[i].items, "water_bodies_km2"),
                      JNum(WaterEighths(ValuesOf(doc)[i][2]), 8))

\* C5 amended: one record per year in key order; total_land_area_km2 is the
\* sum of all class areas of the year rounded to 2 decimal places, and
\* water_bodies_km2 the 'Water body' area rounded to 2 decimal places, 0 when
\* absent.
C5_LandCoverRoundedSums ==
    SdgExtracted =>
       /\ OneRecordPerYearInOrder
       /\ \A i \in 1..Len(LandCover) :
             /\ IsRoundedToHundredths(Lookup(LandCover[i].items, "total_land_area_km2"),
                                      ClassEighths(ValuesOf(doc)[i][2]))
             /\ IsRoundedToHundredths(Lookup(LandCover[i].items, "water_bodies_km2"),
                                      WaterEighths(ValuesOf(doc)[i][2]))

\* two years out of chronological order, the first with a 'Water body' class
\* and a total of 0.375 km2 (recorded as 0.38), the second without the class
C5_Witness ==
    /\ SdgExtracted
    /\ Len(ValuesOf(doc)) = 2
    /\ ValuesOf(doc)[1][1] = Year2021
    /\ ValuesOf(doc)[2][1] = Year2020
    /\ ClassEighths(ValuesOf(doc)[1][2]) = 3
    /\ WaterEighths(ValuesOf(doc)[1][2]) = 1
    /\ Len(ValuesOf(doc)[2][2].items) = 1
    /\ Lookup(LandCover[1].items, "total_land_area_km2") = JNum(38, 100)
    /\ Lookup(LandCover[2].items, "water_bodies_km2") = JNum(0, 1)

====
